---- MODULE Spec2Model ----
(***************************************************************************)
(* Model of src/python/main.py: the PETSIRD scanner-geometry to 3D mesh    *)
(* converter.  The rigid-transform algebra, the efficiency extractor, the  *)
(* traversal of replicated modules / detecting elements, the box face      *)
(* table and the colour assignment are translated from the source.         *)
(*                                                                         *)
(* Numbers: coordinates and matrix entries are integers (exact            *)
(* arithmetic, so the floating-point tolerance of the source is not       *)
(* modelled).  Efficiencies are fixed-point: a table entry e stands for   *)
(* e / EffDen, a mean over the energy bins is kept as the row sum, in     *)
(* units of 1 / MeanDen.                                                   *)
(***************************************************************************)
EXTENDS Integers, Sequences, FiniteSets, TLC

VARIABLES pc, args, header, detector_efficiencies, shapes, vertices,
          rep_i, mod_i, grp_i, det_i, num_det_in_module,
          exported, exit_status, alg

vars == <<pc, args, header, detector_efficiencies, shapes, vertices,
          rep_i, mod_i, grp_i, det_i, num_det_in_module,
          exported, exit_status, alg>>

mainvars == <<pc, args, header, detector_efficiencies, shapes, vertices,
              rep_i, mod_i, grp_i, det_i, num_det_in_module,
              exported, exit_status>>

(***************************************************************************)
(* Bounds of the model.                                                    *)
(***************************************************************************)
\* total number of detecting-element instances of a scanner
MaxElems == 4
\* a run with random colours is explored on scanners of at most this size
MaxRandomElems == 2
\* number of different efficiency tables tried for a scanner
NumTables == 1
\* energy bins per table row
NumBins == 2
\* fixed-point resolution of a table entry (entry e is e / EffDen)
EffDen == 4
\* longest transform list handed to mult_transforms in the algebra runs
MaxLen == 3

MeanDen == NumBins * EffDen

(***************************************************************************)
(* Small arithmetic helpers.                                               *)
(***************************************************************************)
RECURSIVE SumSeq(_)
SumSeq(s) == IF s = <<>> THEN 0 ELSE Head(s) + SumSeq(Tail(s))

RECURSIVE Flatten(_)
Flatten(ss) == IF ss = <<>> THEN <<>> ELSE Head(ss) \o Flatten(Tail(ss))

Reverse(s) == [i \in 1..Len(s) |-> s[Len(s) + 1 - i]]

\* numpy astype(np.uint8) of a non-negative value: truncation, then 8 bits
ToUint8(x) == x % 256

(***************************************************************************)
(* Transform algebra, main.py lines 42-93.                                 *)
(* A RigidTransformation is its 3x4 matrix, a Coordinate its 3-vector.     *)
(***************************************************************************)
Identity44 == << <<1, 0, 0, 0>>, <<0, 1, 0, 0>>, <<0, 0, 1, 0>>, <<0, 0, 0, 1>> >>

\* one entry of a matrix product
Dot(A, B, i, j) ==
    A[i][1] * B[1][j] + A[i][2] * B[2][j] + A[i][3] * B[3][j] + A[i][4] * B[4][j]

ProductRow(A, B, i) == <<Dot(A, B, i, 1), Dot(A, B, i, 2), Dot(A, B, i, 3), Dot(A, B, i, 4)>>

\* np.matmul of two 4x4 matrices
matmul(A, B) ==
    <<ProductRow(A, B, 1), ProductRow(A, B, 2), ProductRow(A, B, 3), ProductRow(A, B, 4)>>

MatVecEntry(A, v, i) == A[i][1] * v[1] + A[i][2] * v[2] + A[i][3] * v[3] + A[i][4] * v[4]

\* np.matmul of a 4x4 matrix and a 4-vector
matvec(A, v) ==
    <<MatVecEntry(A, v, 1), MatVecEntry(A, v, 2), MatVecEntry(A, v, 3), MatVecEntry(A, v, 4)>>

transform_to_mat44(transform) == transform \o << <<0, 0, 0, 1>> >>

mat44_to_transform(mat) == SubSeq(mat, 1, 3)

coordinate_to_homogeneous(coord) == coord \o <<1>>

homogeneous_to_coordinate(hom_coord) == SubSeq(hom_coord, 1, 3)

\* the new factor multiplied on the wrong side of the accumulated matrix
RECURSIVE MultLoop_right(_, _)
MultLoop_right(ts, mat) ==
    IF ts = <<>> THEN mat
    ELSE MultLoop_right(Tail(ts), matmul(mat, transform_to_mat44(Head(ts))))

\* the loop of mult_transforms over a list that is already reversed
RECURSIVE MultLoop(_, _)
MultLoop(ts, mat) ==
    IF ts = <<>> THEN mat
    ELSE MultLoop(Tail(ts), matmul(transform_to_mat44(Head(ts)), mat))

\* a slip in the order: the list is walked first to last
mult_transforms_forward(transforms) ==
    mat44_to_transform(MultLoop(transforms, Identity44))

mult_transforms(transforms) ==
    mat44_to_transform(MultLoop(Reverse(transforms), Identity44))

mult_transforms_coord(transforms, coord) ==
    homogeneous_to_coordinate(
        matvec(transform_to_mat44(mult_transforms(transforms)),
               coordinate_to_homogeneous(coord)))

\* the list comprehension of transform_BoxShape over the corners
RECURSIVE MapCorners(_, _)
MapCorners(transform, corners) ==
    IF corners = <<>> THEN <<>>
    ELSE <<mult_transforms_coord(<<transform>>, Head(corners))>>
         \o MapCorners(transform, Tail(corners))

transform_BoxShape(transform, box_shape) == MapCorners(transform, box_shape)

(***************************************************************************)
(* Rigid transforms used as inputs.                                        *)
(***************************************************************************)
Rigid(rot, t) == <<rot[1] \o <<t[1]>>, rot[2] \o <<t[2]>>, rot[3] \o <<t[3]>> >>

RotId == << <<1, 0, 0>>, <<0, 1, 0>>, <<0, 0, 1>> >>
RotZ90 == << <<0, -1, 0>>, <<1, 0, 0>>, <<0, 0, 1>> >>
RotZ180 == << <<-1, 0, 0>>, <<0, -1, 0>>, <<0, 0, 1>> >>
RotX90 == << <<1, 0, 0>>, <<0, 0, -1>>, <<0, 1, 0>> >>

TransformSet ==
    { Rigid(RotId, <<0, 0, 0>>), Rigid(RotZ90, <<1, 0, 0>>),
      Rigid(RotX90, <<0, 2, 0>>), Rigid(RotId, <<0, 0, 3>>) }

PointSet == { <<0, 0, 0>>, <<1, 2, 3>>, <<-1, 0, 2>> }

RECURSIVE SeqsUpTo(_, _)
SeqsUpTo(S, n) ==
    IF n = 0 THEN { <<>> }
    ELSE LET shorter == SeqsUpTo(S, n - 1)
         IN  shorter \cup { Append(s, x) : s \in { t \in shorter : Len(t) = n - 1 }, x \in S }

(***************************************************************************)
(* Scanner geometries read from the header.  A replicated module is        *)
(* [nmods |-> len(rep_module.transforms),                                  *)
(*  groups |-> <<len(rep_volume.transforms) : rep_volume in det_el>>].     *)
(***************************************************************************)
\* sequences of positive integers whose sum is at most b (the empty one included)
RECURSIVE CountSeqs(_)
CountSeqs(b) ==
    { <<>> } \cup UNION { { <<k>> \o s : s \in CountSeqs(b - k) } : k \in 1..b }

ElemsPerModule(rep) == SumSeq(rep.groups)

ElemsOfRep(rep) == rep.nmods * ElemsPerModule(rep)

RepsUpTo(b) ==
    UNION { { [nmods |-> m, groups |-> g] : g \in CountSeqs(b \div m) \ { <<>> } } : m \in 1..b }

RECURSIVE RepSeqs(_)
RepSeqs(b) ==
    { <<>> } \cup UNION { { <<r>> \o s : s \in RepSeqs(b - ElemsOfRep(r)) } : r \in RepsUpTo(b) }

Scanners == RepSeqs(MaxElems) \ { <<>> }

RECURSIVE NumElements(_)
NumElements(scanner) ==
    IF scanner = <<>> THEN 0 ELSE ElemsOfRep(Head(scanner)) + NumElements(Tail(scanner))

RECURSIVE NumModules(_)
NumModules(scanner) ==
    IF scanner = <<>> THEN 0 ELSE Head(scanner).nmods + NumModules(Tail(scanner))

\* rep_module.transforms[m] of the r-th replicated module (0-based)
ModTransform(r, m) ==
    Rigid(IF m % 3 = 0 THEN RotZ90 ELSE IF m % 3 = 1 THEN RotZ180 ELSE RotId,
          <<10 * (r + 1), 4 * m, 0>>)

\* rep_volume.transforms[d] of the g-th detecting-element group (0-based)
DetTransform(g, d) ==
    Rigid(IF g % 2 = 1 THEN RotX90 ELSE RotId, <<2 * d, 3 * g, g>>)

\* rep_volume.object.shape.corners of the g-th group: a box, in the corner
\* order the face table expects
BoxCorners(g) ==
    LET w == g + 1
    IN  << <<0, 0, 0>>, <<w, 0, 0>>, <<w, 1, 0>>, <<0, 1, 0>>,
           <<0, 0, 1>>, <<w, 0, 1>>, <<w, 1, 1>>, <<0, 1, 1>> >>

\* det_el_efficiencies: one row of NumBins entries per element instance
EffTable(v, n) ==
    [k \in 1..n |-> [b \in 1..NumBins |-> (v * k + b + v) % (EffDen + 1)]]

NoTable == [present |-> FALSE, rows |-> <<>>]

TablesFor(n) ==
    { NoTable } \cup { [present |-> TRUE, rows |-> EffTable(v, n)] : v \in 1..NumTables }

Headers ==
    UNION { { [scanner |-> sc, det_el_efficiencies |-> t] : t \in TablesFor(NumElements(sc)) } :
            sc \in Scanners }

(***************************************************************************)
(* Efficiency extractor, main.py lines 119-138.                            *)
(***************************************************************************)
NoneEff == [present |-> FALSE, vals |-> <<>>]

\* np.mean(table, axis=1), as row sums in units of 1 / MeanDen
MeanAxis1(rows) == [k \in 1..Len(rows) |-> SumSeq(rows[k])]

\* np.ones(table.shape)
OnesLike(rows) == [k \in 1..Len(rows) |-> [b \in 1..NumBins |-> EffDen]]

\* the missing table is not reported: the sentinel is returned instead
extract_detector_eff_no_exit(show_det_eff, hdr) ==
    LET table == hdr.det_el_efficiencies
    IN  IF table.present
        THEN [exit |-> FALSE,
              value |-> [present |-> TRUE,
                         vals |-> MeanAxis1(IF show_det_eff THEN table.rows
                                            ELSE OnesLike(table.rows))]]
        ELSE [exit |-> FALSE, value |-> NoneEff]

\* the flag is ignored: the real table is averaged whenever it is present
extract_detector_eff_real(show_det_eff, hdr) ==
    LET table == hdr.det_el_efficiencies
    IN  IF table.present
        THEN [exit |-> FALSE,
              value |-> [present |-> TRUE, vals |-> MeanAxis1(table.rows)]]
        ELSE IF show_det_eff
        THEN [exit |-> TRUE, value |-> NoneEff]
        ELSE [exit |-> FALSE, value |-> NoneEff]

extract_detector_eff(show_det_eff, hdr) ==
    LET table == hdr.det_el_efficiencies
    IN  IF table.present
        THEN [exit |-> FALSE,
              value |-> [present |-> TRUE,
                         vals |-> MeanAxis1(IF show_det_eff THEN table.rows
                                            ELSE OnesLike(table.rows))]]
        ELSE IF show_det_eff
        THEN [exit |-> TRUE, value |-> NoneEff]
        ELSE [exit |-> FALSE, value |-> NoneEff]

(***************************************************************************)
(* Solid synthesis, main.py lines 96-116.                                  *)
(***************************************************************************)
BoxFaces ==
    << <<1, 0, 2>>, <<0, 2, 3>>,
       <<4, 5, 6>>, <<4, 6, 7>>,
       <<0, 3, 7>>, <<0, 7, 4>>,
       <<1, 2, 6>>, <<1, 6, 5>>,
       <<0, 1, 5>>, <<0, 5, 4>>,
       <<3, 2, 6>>, <<3, 6, 7>> >>

\* trimesh.Trimesh(vertices, faces); no colour set yet
create_box_from_vertices(verts) ==
    [kind |-> "box", vertices |-> verts, faces |-> BoxFaces, face_colors |-> <<>>]

\* trimesh.convex.convex_hull(points): the hull algorithm is the library's;
\* the solid keeps the point buffer it was built from
convex_hull(points) ==
    [kind |-> "hull", vertices |-> points, faces |-> <<>>, face_colors |-> <<>>]

\* trimesh.creation.cylinder(radius, height); this program sets no colour on it
cylinder(fov) ==
    [kind |-> "cylinder", vertices |-> fov, faces |-> <<>>, face_colors |-> <<>>]

(***************************************************************************)
(* Colour assignment, main.py lines 36 and 141-178.                        *)
(***************************************************************************)
crystal_color == <<255, 40, 40>>

\* the support of np.random.randint(low, high): high is exclusive
randint(low, high) == low..(high - 1)

\* the draws followed by the model: the ends of the range and their neighbours
ProbeValues == { -1, 0, 254, 255, 256 }

RandomColors ==
    LET ch == randint(0, 255) \cap ProbeValues
    IN  { <<r, g, b>> : r \in ch, g \in ch, b \in ch }

\* crystal_color * (num / den), before the cast
Scaled(num, den) == [c \in 1..3 |-> (crystal_color[c] * num) \div den]

\* np.array([color[0], color[1], color[2], 50]).astype(np.uint8)
FColor(color) == <<ToUint8(color[1]), ToUint8(color[2]), ToUint8(color[3]), ToUint8(50)>>

\* the colours set_detector_color may compute, or the exception it raises
DetColors(eff, m, n, d, random_color) ==
    IF random_color THEN [err |-> "", colors |-> RandomColors]
    ELSE IF eff.present
    THEN LET idx == m * n + d
         IN  IF idx < Len(eff.vals)
             THEN [err |-> "", colors |-> { Scaled(eff.vals[idx + 1], MeanDen) }]
             ELSE [err |-> "IndexError", colors |-> {}]
    ELSE [err |-> "", colors |-> { crystal_color }]

\* efficiency weighting tested before the random flag
set_detector_color_eff_first(det_mesh, eff, m, n, d, random_color) ==
    LET r == IF eff.present THEN DetColors(eff, m, n, d, FALSE)
             ELSE DetColors(eff, m, n, d, random_color)
    IN  [err |-> r.err,
         meshes |-> { [det_mesh EXCEPT !.face_colors = FColor(c)] : c \in r.colors }]

set_detector_color(det_mesh, eff, m, n, d, random_color) ==
    LET r == DetColors(eff, m, n, d, random_color)
    IN  [err |-> r.err,
         meshes |-> { [det_mesh EXCEPT !.face_colors = FColor(c)] : c \in r.colors }]

\* the colours set_module_color may compute, or the exception it raises:
\* reshape((-1, width)) needs len % width = 0, [m, :] needs m < rows
ModColors(eff, m, n, ngroups, random_color) ==
    IF random_color THEN [err |-> "", colors |-> RandomColors]
    ELSE IF eff.present
    THEN LET width == ngroups * n
         IN  IF Len(eff.vals) % width # 0
             THEN [err |-> "ValueError", colors |-> {}]
             ELSE IF m >= Len(eff.vals) \div width
             THEN [err |-> "IndexError", colors |-> {}]
             ELSE [err |-> "",
                   colors |-> { Scaled(SumSeq(SubSeq(eff.vals, m * width + 1, m * width + width)),
                                       width * MeanDen) }]
    ELSE [err |-> "", colors |-> { crystal_color }]

set_module_color(module_mesh, eff, m, n, ngroups, random_color) ==
    LET r == ModColors(eff, m, n, ngroups, random_color)
    IN  [err |-> r.err,
         meshes |-> { [module_mesh EXCEPT !.face_colors = FColor(c)] : c \in r.colors }]

(***************************************************************************)
(* The run of the program, main.py lines 238-306.                          *)
(***************************************************************************)
FovChoices == { <<>>, <<30, 20>> }

ArgSets ==
    [modules_only : BOOLEAN, show_det_eff : BOOLEAN, random_color : BOOLEAN, fov : FovChoices]

AlgIdle == [pc |-> "idle", transforms |-> <<>>, coord |-> <<0, 0, 0>>,
            i |-> 0, acc |-> <<0, 0, 0>>, result |-> <<0, 0, 0>>]

Init ==
    /\ pc = "start"
    /\ header \in Headers
    /\ args \in ArgSets
    /\ args.random_color => NumElements(header.scanner) <= MaxRandomElems
    /\ detector_efficiencies = NoneEff
    /\ shapes = <<>>
    /\ vertices = <<>>
    /\ rep_i = 0
    /\ mod_i = 0
    /\ grp_i = 0
    /\ det_i = 0
    /\ num_det_in_module = 0
    /\ exported = FALSE
    /\ exit_status = -1
    /\ alg = AlgIdle

\* lines 249-258: read the header, drain the time blocks, extract the
\* efficiencies (sys.exit with a message when they are asked for and missing)
ReadAndExtract ==
    /\ pc = "start"
    /\ LET r == extract_detector_eff(args.show_det_eff, header)
       IN  IF r.exit
           THEN /\ pc' = "config_error"
                /\ exit_status' = 1
                /\ UNCHANGED detector_efficiencies
           ELSE /\ pc' = "traverse"
                /\ detector_efficiencies' = r.value
                /\ UNCHANGED exit_status
    /\ shapes' = <<>>
    /\ vertices' = <<>>
    /\ UNCHANGED <<args, header, rep_i, mod_i, grp_i, det_i, num_det_in_module, exported, alg>>

CurRep == header.scanner[rep_i + 1]

\* where the loops of lines 260 and 264 go once a module instance is finished
AfterModule ==
    IF mod_i + 1 < CurRep.nmods
    THEN [pc |-> "traverse", rep |-> rep_i, mod |-> mod_i + 1, fresh |-> TRUE]
    ELSE IF rep_i + 1 < Len(header.scanner)
    THEN [pc |-> "traverse", rep |-> rep_i + 1, mod |-> 0, fresh |-> TRUE]
    ELSE [pc |-> "finish", rep |-> rep_i, mod |-> mod_i, fresh |-> FALSE]

\* lines 268-286: one pass of the innermost loop body
ElementStep ==
    /\ pc = "traverse"
    /\ LET n == CurRep.groups[grp_i + 1]
           box == transform_BoxShape(
                      mult_transforms(<<ModTransform(rep_i, mod_i), DetTransform(grp_i, det_i)>>),
                      BoxCorners(grp_i))
           corners == box
           colored == set_detector_color(create_box_from_vertices(corners),
                                         detector_efficiencies, mod_i, n, det_i,
                                         args.random_color)
           failed == ~args.modules_only /\ colored.err # ""
       IN  /\ num_det_in_module' = n
           /\ IF args.modules_only
              THEN /\ shapes' = shapes
                   /\ vertices' = Append(vertices, corners)
              ELSE /\ vertices' = vertices
                   /\ IF failed THEN shapes' = shapes
                      ELSE \E mesh \in colored.meshes : shapes' = Append(shapes, mesh)
           /\ IF failed
              THEN /\ pc' = "error"
                   /\ exit_status' = 1
                   /\ UNCHANGED <<rep_i, mod_i, grp_i, det_i>>
              ELSE /\ UNCHANGED exit_status
                   /\ IF det_i + 1 < n
                      THEN /\ det_i' = det_i + 1
                           /\ UNCHANGED <<pc, rep_i, mod_i, grp_i>>
                      ELSE IF grp_i + 1 < Len(CurRep.groups)
                      THEN /\ grp_i' = grp_i + 1
                           /\ det_i' = 0
                           /\ UNCHANGED <<pc, rep_i, mod_i>>
                      ELSE IF args.modules_only
                      THEN /\ pc' = "module_end"
                           /\ UNCHANGED <<rep_i, mod_i, grp_i, det_i>>
                      ELSE /\ pc' = AfterModule.pc
                           /\ rep_i' = AfterModule.rep
                           /\ mod_i' = AfterModule.mod
                           /\ grp_i' = IF AfterModule.fresh THEN 0 ELSE grp_i
                           /\ det_i' = IF AfterModule.fresh THEN 0 ELSE det_i
    /\ UNCHANGED <<args, header, detector_efficiencies, exported, alg>>

\* the corner buffer is never emptied between module instances
ModuleStep_keep_buffer ==
    /\ pc = "module_end"
    /\ LET vertices_reshaped == Flatten(vertices)
           colored == set_module_color(convex_hull(vertices_reshaped),
                                       detector_efficiencies, mod_i, num_det_in_module,
                                       Len(CurRep.groups), args.random_color)
       IN  IF colored.err # ""
           THEN /\ pc' = "error"
                /\ exit_status' = 1
                /\ UNCHANGED <<shapes, vertices, rep_i, mod_i, grp_i, det_i>>
           ELSE /\ \E mesh \in colored.meshes : shapes' = Append(shapes, mesh)
                /\ pc' = AfterModule.pc
                /\ rep_i' = AfterModule.rep
                /\ mod_i' = AfterModule.mod
                /\ grp_i' = IF AfterModule.fresh THEN 0 ELSE grp_i
                /\ det_i' = IF AfterModule.fresh THEN 0 ELSE det_i
                /\ vertices' = vertices
                /\ UNCHANGED exit_status
    /\ UNCHANGED <<args, header, detector_efficiencies, num_det_in_module, exported, alg>>

\* lines 287-299: the hull of the module's corner buffer, coloured and appended;
\* line 265 empties the buffer when the next module instance starts
ModuleStep ==
    /\ pc = "module_end"
    /\ LET vertices_reshaped == Flatten(vertices)
           colored == set_module_color(convex_hull(vertices_reshaped),
                                       detector_efficiencies, mod_i, num_det_in_module,
                                       Len(CurRep.groups), args.random_color)
       IN  IF colored.err # ""
           THEN /\ pc' = "error"
                /\ exit_status' = 1
                /\ UNCHANGED <<shapes, vertices, rep_i, mod_i, grp_i, det_i>>
           ELSE /\ \E mesh \in colored.meshes : shapes' = Append(shapes, mesh)
                /\ pc' = AfterModule.pc
                /\ rep_i' = AfterModule.rep
                /\ mod_i' = AfterModule.mod
                /\ grp_i' = IF AfterModule.fresh THEN 0 ELSE grp_i
                /\ det_i' = IF AfterModule.fresh THEN 0 ELSE det_i
                /\ vertices' = IF AfterModule.fresh THEN <<>> ELSE vertices
                /\ UNCHANGED exit_status
    /\ UNCHANGED <<args, header, detector_efficiencies, num_det_in_module, exported, alg>>

\* lines 301-306: the optional cylinder, the concatenation and the export
Finish ==
    /\ pc = "finish"
    /\ shapes' = IF args.fov # <<>> THEN Append(shapes, cylinder(args.fov)) ELSE shapes
    /\ exported' = TRUE
    /\ exit_status' = 0
    /\ pc' = "done"
    /\ UNCHANGED <<args, header, detector_efficiencies, vertices,
                   rep_i, mod_i, grp_i, det_i, num_det_in_module, alg>>

Next == ReadAndExtract \/ ElementStep \/ ModuleStep \/ Finish

Spec == Init /\ [][Next]_vars

(***************************************************************************)
(* Runs of the transform algebra alone: a list of transforms and a point,  *)
(* the point sent through the list one transform at a time (last element   *)
(* first) and through the composed transform.                              *)
(***************************************************************************)
\* lines 81-85 for one transform: promote, multiply, demote
apply(transform, point) ==
    homogeneous_to_coordinate(
        matvec(transform_to_mat44(transform), coordinate_to_homogeneous(point)))

InitAlg ==
    /\ alg \in { [pc |-> "stepping", transforms |-> ts, coord |-> p,
                  i |-> Len(ts), acc |-> p, result |-> p] :
                 ts \in SeqsUpTo(TransformSet, MaxLen), p \in PointSet }
    /\ pc = "idle"
    /\ header = [scanner |-> <<>>, det_el_efficiencies |-> NoTable]
    /\ args = [modules_only |-> FALSE, show_det_eff |-> FALSE,
               random_color |-> FALSE, fov |-> <<>>]
    /\ detector_efficiencies = NoneEff
    /\ shapes = <<>>
    /\ vertices = <<>>
    /\ rep_i = 0
    /\ mod_i = 0
    /\ grp_i = 0
    /\ det_i = 0
    /\ num_det_in_module = 0
    /\ exported = FALSE
    /\ exit_status = -1

ApplyOne ==
    /\ alg.pc = "stepping"
    /\ alg.i > 0
    /\ alg' = [alg EXCEPT !.acc = apply(alg.transforms[alg.i], alg.acc), !.i = alg.i - 1]
    /\ UNCHANGED mainvars

ApplyComposed ==
    /\ alg.pc = "stepping"
    /\ alg.i = 0
    /\ alg' = [alg EXCEPT !.result = mult_transforms_coord(alg.transforms, alg.coord),
                          !.pc = "done"]
    /\ UNCHANGED mainvars

NextAlg == ApplyOne \/ ApplyComposed

SpecAlg == InitAlg /\ [][NextAlg]_vars

(***************************************************************************)
(* What a traversal is expected to visit, written from the hierarchy       *)
(* alone: module instances outermost, then groups, then instances.         *)
(***************************************************************************)
GroupTriples(r, m, g, n) == [d \in 1..n |-> <<r, m, g, d - 1>>]

ModuleTriples(r, m, groups) ==
    Flatten([g \in 1..Len(groups) |-> GroupTriples(r, m, g - 1, groups[g])])

RepTriples(r, rep) ==
    Flatten([m \in 1..rep.nmods |-> ModuleTriples(r, m - 1, rep.groups)])

Traversal(scanner) ==
    Flatten([r \in 1..Len(scanner) |-> RepTriples(r - 1, scanner[r])])

ModulesOfRep(r, rep) == [m \in 1..rep.nmods |-> <<r, m - 1>>]

ModuleList(scanner) ==
    Flatten([r \in 1..Len(scanner) |-> ModulesOfRep(r - 1, scanner[r])])

\* the corners of one element instance: the element's own transform first,
\* then the module's
ExpectedCorners(t) ==
    [c \in 1..8 |-> apply(ModTransform(t[1], t[2]),
                          apply(DetTransform(t[3], t[4]), BoxCorners(t[3])[c]))]

ExpectedModulePoints(scanner, rm) ==
    LET ts == ModuleTriples(rm[1], rm[2], scanner[rm[1] + 1].groups)
    IN  Flatten([k \in 1..Len(ts) |-> ExpectedCorners(ts[k])])

\* the solids of the traversal (everything but the FOV cylinder)
IsTraversalSolid(s) == s.kind # "cylinder"

Solids == SelectSeq(shapes, IsTraversalSolid)

Table == header.det_el_efficiencies

\* mean over the energy bins of table row k, in units of 1 / MeanDen
RowMean(k) == SumSeq(Table.rows[k])

Traversing == pc \in { "traverse", "module_end", "finish", "done", "error" }

\* number of module instances that come before the current one
ModulesBefore ==
    NumModules(SubSeq(header.scanner, 1, rep_i)) + mod_i

\* number of element instances of the current module instance already processed
ElementsDoneInModule ==
    SumSeq(SubSeq(CurRep.groups, 1, grp_i)) + det_i

(***************************************************************************)
(* C1: when show_det_eff is set and the header has no efficiency table,    *)
(* the run ends in the configuration error before any solid is made or     *)
(* appended and before anything is exported, whatever the other options    *)
(* and the geometry; the error (exit status 1) differs from a successful   *)
(* run (exit status 0, exported).                                          *)
(***************************************************************************)
C1_ConfigErrorBeforeTraversal ==
    /\ (args.show_det_eff /\ ~Table.present /\ pc # "idle")
          => /\ pc \in { "start", "config_error" }
             /\ shapes = <<>>
             /\ vertices = <<>>
             /\ ~exported
    /\ pc = "config_error" => (exit_status = 1 /\ args.show_det_eff /\ ~Table.present)
    /\ pc = "done" => (exit_status = 0 /\ exported)
    /\ pc = "start" => exit_status = -1

C1_Witness ==
    /\ pc = "config_error"
    /\ args.modules_only
    /\ args.random_color
    /\ args.fov # <<>>

(***************************************************************************)
(* C2 as written: with the flag false the extractor returns the "no        *)
(* weighting" sentinel whether the table is present or absent.             *)
(***************************************************************************)
C2_Original_SentinelWhenFlagFalse ==
    (Traversing /\ ~args.show_det_eff) => ~detector_efficiencies.present

(***************************************************************************)
(* C2 amended: with the flag false the extractor returns the sentinel when *)
(* the table is absent, and an array holding 1.0 for every row of the      *)
(* table when the table is present.                                        *)
(***************************************************************************)
C2_OnesWhenFlagFalse ==
    (Traversing /\ ~args.show_det_eff) =>
        IF Table.present
        THEN /\ detector_efficiencies.present
             /\ Len(detector_efficiencies.vals) = Len(Table.rows)
             /\ \A k \in 1..Len(Table.rows) : detector_efficiencies.vals[k] = MeanDen
        ELSE detector_efficiencies = NoneEff

C2_Witness ==
    /\ pc = "traverse"
    /\ ~args.show_det_eff
    /\ Table.present
    /\ detector_efficiencies.present

(***************************************************************************)
(* C3: for every list of 0 to MaxLen transforms and every point, the       *)
(* composed transform applied to the point gives the point obtained by     *)
(* applying the transforms one at a time from the last to the first; for   *)
(* the empty list the result is the point itself.                          *)
(***************************************************************************)
C3_ComposeIsReverseApplication ==
    alg.pc = "done" =>
        /\ alg.result = alg.acc
        /\ alg.transforms = <<>> => alg.result = alg.coord

C3_Witness ==
    /\ alg.pc = "done"
    /\ Len(alg.transforms) = 3
    /\ alg.transforms[1] # alg.transforms[2]
    /\ alg.transforms[2] # alg.transforms[3]
    /\ alg.result # alg.coord

(***************************************************************************)
(* C4, on scanners with one replicated module type: in per-element         *)
(* efficiency mode the k-th solid of the traversal (k counts the element   *)
(* instances in enumeration order, across the groups of a module) is       *)
(* coloured with the crystal colour times efficiency[k].                   *)
(***************************************************************************)
ElementEfficiencyMode ==
    /\ ~args.modules_only
    /\ args.show_det_eff
    /\ ~args.random_color
    /\ Table.present
    /\ Len(header.scanner) = 1

C4_ColourByEnumerationIndex ==
    ElementEfficiencyMode =>
        \A k \in 1..Len(Solids) :
            Solids[k].face_colors = FColor(Scaled(RowMean(k), MeanDen))

(***************************************************************************)
(* C5, on scanners with one replicated module type: in per-module          *)
(* efficiency mode the solid of the m-th module instance is coloured with  *)
(* the crystal colour times the mean of the efficiencies of exactly the    *)
(* element instances of that module instance.                              *)
(***************************************************************************)
ModuleEfficiencyMode ==
    /\ args.modules_only
    /\ args.show_det_eff
    /\ ~args.random_color
    /\ Table.present
    /\ Len(header.scanner) = 1

\* sum of the row means of the elements of the m-th module instance (1-based)
ModuleMeanSum(m, per) ==
    SumSeq([j \in 1..per |-> RowMean((m - 1) * per + j)])

C5_ColourByModuleMean ==
    ModuleEfficiencyMode =>
        LET per == ElemsPerModule(header.scanner[1])
        IN  \A m \in 1..Len(Solids) :
                Solids[m].face_colors =
                    FColor(Scaled(ModuleMeanSum(m, per), per * MeanDen))

(***************************************************************************)
(* C6: every solid of a run is coloured by one mode, chosen by priority:   *)
(* a random colour when random_color is set (whatever show_det_eff is),    *)
(* otherwise an efficiency colour when show_det_eff is set, otherwise the  *)
(* fixed crystal colour; every solid has alpha 50.                         *)
(***************************************************************************)
\* crystal colour scaled by the mean of the table rows a..b
SliceColor(a, b) ==
    FColor(Scaled(SumSeq([j \in 1..(b - a + 1) |-> RowMean(a + j - 1)]),
                  (b - a + 1) * MeanDen))

EfficiencyColours ==
    { SliceColor(p[1], p[2]) :
        p \in { q \in (1..Len(Table.rows)) \X (1..Len(Table.rows)) : q[1] <= q[2] } }

ColouredByMode(s) ==
    /\ Len(s.face_colors) = 4
    /\ s.face_colors[4] = 50
    /\ IF args.random_color
       THEN s.face_colors \in { FColor(c) : c \in RandomColors }
       ELSE IF args.show_det_eff
       THEN s.face_colors \in EfficiencyColours
       ELSE s.face_colors = FColor(crystal_color)

C6_OneColourModePerRun ==
    \A k \in 1..Len(Solids) : ColouredByMode(Solids[k])

C6_Witness ==
    /\ pc = "done"
    /\ args.random_color
    /\ args.show_det_eff
    /\ Table.present
    /\ ~args.modules_only
    /\ Len(Solids) >= 2

(***************************************************************************)
(* C7: in random-colour mode every value of 0..255, 255 included, is a     *)
(* possible outcome for a channel of the next solid, no value outside is,  *)
(* and alpha is 50.                                                        *)
(***************************************************************************)
\* the solids the colouring of the next element, or of the next module, may give
NextColoured ==
    set_detector_color(create_box_from_vertices(<<>>), detector_efficiencies,
                       mod_i, CurRep.groups[grp_i + 1], det_i, args.random_color).meshes
    \cup
    set_module_color(convex_hull(<<>>), detector_efficiencies,
                     mod_i, CurRep.groups[grp_i + 1], Len(CurRep.groups),
                     args.random_color).meshes

C7_FullByteRange ==
    (pc = "traverse" /\ args.random_color) =>
        /\ \A v \in ProbeValues \cap 0..255 : \A ch \in 1..3 :
               \E m \in NextColoured : m.face_colors[ch] = v
        /\ \A m \in NextColoured :
               /\ \A ch \in 1..3 : m.face_colors[ch] \in 0..255
               /\ m.face_colors[4] = 50
        /\ \A k \in 1..Len(Solids) : Solids[k].face_colors[4] = 50

(***************************************************************************)
(* C8: in per-element mode the traversal emits, in traversal order, one    *)
(* 8-corner box per (module instance, group, element instance); a          *)
(* completed traversal has emitted as many solids as the scanner has       *)
(* element instances; the corners of a solid are the template corners, in  *)
(* template order, sent through the element transform and then the module  *)
(* transform.                                                              *)
(***************************************************************************)
C8_OneBoxPerElement ==
    (~args.modules_only /\ Traversing) =>
        LET T == Traversal(header.scanner)
        IN  /\ Len(Solids) <= Len(T)
            /\ \A k \in 1..Len(Solids) :
                   /\ Solids[k].kind = "box"
                   /\ Len(Solids[k].vertices) = 8
                   /\ Solids[k].vertices = ExpectedCorners(T[k])
            /\ pc \in { "finish", "done" } =>
                   /\ Len(Solids) = Len(T)
                   /\ Len(Solids) = NumElements(header.scanner)
            /\ pc = "done" => Len(shapes) = Len(Solids) + (IF args.fov # <<>> THEN 1 ELSE 0)

C8_Witness ==
    /\ pc = "done"
    /\ ~args.modules_only
    /\ Len(header.scanner) = 2
    /\ header.scanner[1].nmods = 2
    /\ Len(header.scanner[2].groups) = 2
    /\ Len(Solids) = 4
    /\ args.fov # <<>>

DirectedEdges(tri) == { <<tri[1], tri[2]>>, <<tri[2], tri[3]>>, <<tri[3], tri[1]>> }

Corners(tri) == { tri[1], tri[2], tri[3] }

\* the six quad faces of the hexahedron, as corner sets
QuadFaces ==
    { {0, 1, 2, 3}, {4, 5, 6, 7}, {0, 3, 7, 4}, {1, 2, 6, 5}, {0, 1, 5, 4}, {3, 2, 6, 7} }

ConsistentWinding(faces) ==
    \A i \in 1..Len(faces) : \A j \in 1..Len(faces) :
        i # j => DirectedEdges(faces[i]) \cap DirectedEdges(faces[j]) = {}

WellFormedFaces(faces) ==
    /\ Len(faces) = 12
    /\ \A i \in 1..Len(faces) : Corners(faces[i]) \subseteq 0..7 /\ Cardinality(Corners(faces[i])) = 3
    /\ \A q \in QuadFaces :
           Cardinality({ i \in 1..Len(faces) : Corners(faces[i]) \subseteq q }) = 2

C10_ConsistentFaceTable ==
    \A k \in 1..Len(shapes) :
        shapes[k].kind = "box" =>
            /\ WellFormedFaces(shapes[k].faces)
            /\ ConsistentWinding(shapes[k].faces)

====
